---- MODULE Spec2Model ----
(***************************************************************************)
(* Model of the tracedb storage adapter (db/tracedb/adapter.go).           *)
(*                                                                         *)
(* The adapter holds one handle (a.db) to an embedded database and         *)
(* forwards Open/Close/Put/PutWithID/Get/Delete/GenID to it.  The database *)
(* itself (package tracedb) is an external library; its behaviour is       *)
(* modelled by the operators of the section "database" from the storage    *)
(* engine described in the specification, with storage faults as inputs.   *)
(***************************************************************************)
EXTENDS Integers, Sequences, FiniteSets, TLC

\* ---------------------------------------------------------------- bounds
MaxEntries == 2      \* most entries the store holds
MaxId == 2           \* largest message id (generated or caller supplied)
MaxOpens == 1        \* most database handles ever created

\* ------------------------------------------------------------- constants
maxResults == 1024   \* adapter.go:30, declared and never used
Nil == 0             \* the nil *tracedb.DB

Pairs == {<<1, "a">>, <<1, "b">>, <<2, "a">>}
Payloads == {"x", "y"}
Ids == 1..MaxId

\* A Go int (64 bit) is written as hi * 2^32 + lo, 0 <= lo < 2^32.
\* The limits enumerated as inputs of Get.
Limits ==
    {[hi |-> 0, lo |-> n] : n \in 1..MaxId}
        \cup {[hi |-> 0, lo |-> maxResults], [hi |-> 0, lo |-> maxResults + 1],
              [hi |-> 1, lo |-> 1]}

\* limit > n, for a limit in the representation above
LimitGreater(limit, n) == limit.hi > 0 \/ limit.lo > n

\* uint32(limit): the conversion keeps the low 32 bits
Uint32(limit) == limit.lo

VARIABLES
    db,        \* a.db: Nil or the handle returned by tracedb.Open
    version,   \* a.version
    live,      \* handles opened by tracedb.Open and not yet closed
    nOpens,    \* number of handles created so far
    store,     \* entries held by the database (on disk, survives Close)
    clock,     \* next id the database generates for Put
    history,   \* entries written by Put, oldest first, while putOnly
    putOnly,   \* the store was written by successful Put calls only
    panicked,  \* a call dereferenced a nil pointer; the process is gone
    ret,       \* the call that has returned to the sequential caller and its
               \* result; NoCall once the caller has taken it
    pc,        \* concurrent callers: position inside Put/Delete/Close
    held       \* concurrent callers: the handle value read from a.db

vars == <<db, version, live, nOpens, store, clock, history, putOnly,
          panicked, ret, pc, held>>

\* ------------------------------------------------------------- database
Key(e) == <<e.contract, e.topic, e.id>>

\* Batch.PutEntry + Batch.Write: insert or overwrite by key
BatchPut(s, e) == {x \in s : Key(x) # Key(e)} \cup {e}

\* Batch.DeleteEntry + Batch.Write: remove if present, no-op otherwise
BatchDelete(s, contract, topic, id) ==
    {x \in s : Key(x) # <<contract, topic, id>>}

Present(s, contract, topic, id) ==
    \E x \in s : Key(x) = <<contract, topic, id>>

Matching(s, contract, topic) ==
    {x \in s : x.contract = contract /\ x.topic = topic}

RECURSIVE SortDesc(_)
SortDesc(s) ==
    IF s = {} THEN <<>>
    ELSE LET top == CHOOSE x \in s : \A y \in s : y.id <= x.id
         IN <<top>> \o SortDesc(s \ {top})

Take(seq, n) == IF n >= Len(seq) THEN seq ELSE SubSeq(seq, 1, n)

\* DB.Items: at most q.Limit entries of (q.Contract, q.Topic), newest first
Items(s, q) == Take(SortDesc(Matching(s, q.Contract, q.Topic)), q.Limit)

\* -------------------------------------------------------------- adapter
Ok(op, arg) ==
    [op |-> op, outcome |-> "ok", err |-> "nil", matches |-> <<>>, arg |-> arg]
Err(op, arg, e) ==
    [op |-> op, outcome |-> "err", err |-> e, matches |-> <<>>, arg |-> arg]
Panic(op, arg) ==
    [op |-> op, outcome |-> "panic", err |-> "nil", matches |-> <<>>, arg |-> arg]

NoCall ==
    [op |-> "none", outcome |-> "ok", err |-> "nil", matches |-> <<>>, arg |-> <<>>]

Init ==
    /\ db = Nil
    /\ version = 0
    /\ live = {}
    /\ nOpens = 0
    /\ store = {}
    /\ clock = 1
    /\ history = <<>>
    /\ putOnly = TRUE
    /\ panicked = FALSE
    /\ ret = NoCall
    /\ pc = [c \in {"c1", "c2"} |-> "idle"]
    /\ held = [c \in {"c1", "c2"} |-> Nil]

\* Open without the a.db != nil test of adapter.go:43
OpenResultNoCheck(dbv, fresh, parseOk, mkdirOk, dbOpenOk) ==
    IF ~parseOk THEN [db |-> dbv, err |-> "ConfigParse"]
    ELSE IF ~dbOpenOk THEN [db |-> Nil, err |-> "DbOpen"]
    ELSE [db |-> fresh, err |-> "nil"]

\* Open returning the MkdirAll error instead of logging it
OpenResultMkdirFatal(dbv, fresh, parseOk, mkdirOk, dbOpenOk) ==
    IF dbv # Nil THEN [db |-> dbv, err |-> "AlreadyOpen"]
    ELSE IF ~parseOk THEN [db |-> dbv, err |-> "ConfigParse"]
    ELSE IF ~mkdirOk THEN [db |-> dbv, err |-> "Mkdir"]
    ELSE IF ~dbOpenOk THEN [db |-> Nil, err |-> "DbOpen"]
    ELSE [db |-> fresh, err |-> "nil"]

\* adapter.Open: the value assigned to a.db and the error returned
OpenResult(dbv, fresh, parseOk, mkdirOk, dbOpenOk) ==
    IF dbv # Nil THEN [db |-> dbv, err |-> "AlreadyOpen"]
    ELSE IF ~parseOk THEN [db |-> dbv, err |-> "ConfigParse"]
    ELSE IF ~dbOpenOk THEN [db |-> Nil, err |-> "DbOpen"]
    ELSE [db |-> fresh, err |-> "nil"]

Open(parseOk, mkdirOk, dbOpenOk) ==
    LET arg == [parseOk |-> parseOk, mkdirOk |-> mkdirOk, dbOpenOk |-> dbOpenOk]
        r == OpenResult(db, nOpens + 1, parseOk, mkdirOk, dbOpenOk)
    IN /\ ~panicked
       /\ ret = NoCall
       /\ ~parseOk => (mkdirOk /\ dbOpenOk)
       /\ (r.err = "nil") => nOpens < MaxOpens
       /\ db' = r.db
       /\ IF r.err = "nil"
          THEN nOpens' = nOpens + 1 /\ live' = live \cup {r.db}
          ELSE UNCHANGED <<nOpens, live>>
       /\ ret' = IF r.err = "nil" THEN Ok("Open", arg) ELSE Err("Open", arg, r.err)
       /\ UNCHANGED <<version, store, clock, history, putOnly, panicked, pc, held>>

\* Close resetting a.version outside the a.db != nil branch
CloseResultAlwaysReset(dbv, ver, closeErr) ==
    IF dbv # Nil
    THEN [db |-> Nil, version |-> -1, err |-> IF closeErr THEN "DbClose" ELSE "nil"]
    ELSE [db |-> dbv, version |-> -1, err |-> "nil"]

\* adapter.Close: a.db, a.version and the error returned
CloseResult(dbv, ver, closeErr) ==
    IF dbv # Nil
    THEN [db |-> Nil, version |-> -1, err |-> IF closeErr THEN "DbClose" ELSE "nil"]
    ELSE [db |-> dbv, version |-> ver, err |-> "nil"]

Close(closeErr) ==
    LET r == CloseResult(db, version, closeErr)
        arg == [closeErr |-> closeErr]
    IN /\ ~panicked
       /\ ret = NoCall
       /\ db = Nil => ~closeErr
       /\ db' = r.db
       /\ version' = r.version
       /\ live' = IF db # Nil THEN live \ {db} ELSE live
       /\ ret' = IF r.err = "nil" THEN Ok("Close", arg) ELSE Err("Close", arg, r.err)
       /\ UNCHANGED <<nOpens, store, clock, history, putOnly, panicked, pc, held>>

\* adapter.IsOpen
IsOpen == db # Nil

\* the m.Entry that Put and PutWithID hand to Batch.PutEntry
PutEntry(contract, topic, id, payload) ==
    [contract |-> contract, topic |-> topic, id |-> id, payload |-> payload]

\* adapter.Put; the database generates the id from its clock
Put(contract, topic, payload, fault) ==
    LET arg == [fault |-> fault]
    IN /\ ~panicked
       /\ ret = NoCall
       /\ IF db = Nil
          THEN /\ ~fault
               /\ panicked' = TRUE
               /\ ret' = Panic("Put", arg)
               /\ UNCHANGED <<store, clock, history, putOnly>>
          ELSE IF fault
          THEN /\ ret' = Err("Put", arg, "Write")
               /\ UNCHANGED <<store, clock, history, putOnly, panicked>>
          ELSE /\ clock <= MaxId
               /\ Cardinality(store) < MaxEntries
               /\ store' = BatchPut(store, PutEntry(contract, topic, clock, payload))
               /\ clock' = clock + 1
               /\ history' = IF putOnly
                             THEN Append(history, [contract |-> contract,
                                                   topic |-> topic,
                                                   payload |-> payload])
                             ELSE history
               /\ ret' = Ok("Put", arg)
               /\ UNCHANGED <<putOnly, panicked>>
       /\ UNCHANGED <<db, version, live, nOpens, pc, held>>

\* adapter.PutWithID; the caller supplies the id
PutWithID(contract, topic, messageId, payload, fault) ==
    LET arg == [fault |-> fault]
    IN /\ ~panicked
       /\ ret = NoCall
       /\ IF db = Nil
          THEN /\ ~fault
               /\ panicked' = TRUE
               /\ ret' = Panic("PutWithID", arg)
               /\ UNCHANGED <<store, history, putOnly>>
          ELSE IF fault
          THEN /\ ret' = Err("PutWithID", arg, "Write")
               /\ UNCHANGED <<store, history, putOnly, panicked>>
          ELSE /\ Cardinality(BatchPut(store, PutEntry(contract, topic, messageId, payload)))
                      <= MaxEntries
               /\ store' = BatchPut(store, PutEntry(contract, topic, messageId, payload))
               /\ history' = <<>>
               /\ putOnly' = FALSE
               /\ ret' = Ok("PutWithID", arg)
               /\ UNCHANGED panicked
       /\ UNCHANGED <<db, version, live, nOpens, clock, pc, held>>

\* Delete building the entry without its Topic field
DeleteBatchNoTopic(s, contract, topic, messageId) ==
    {x \in s : ~(x.contract = contract /\ x.id = messageId)}

\* the batch function of adapter.Delete applied to the store
DeleteBatch(s, contract, topic, messageId) ==
    BatchDelete(s, contract, topic, messageId)

\* adapter.Delete
Delete(contract, topic, messageId, fault) ==
    LET arg == [fault |-> fault,
                absent |-> ~Present(store, contract, topic, messageId)]
    IN /\ ~panicked
       /\ ret = NoCall
       /\ IF db = Nil
          THEN /\ ~fault
               /\ panicked' = TRUE
               /\ ret' = Panic("Delete", arg)
               /\ UNCHANGED <<store, history, putOnly>>
          ELSE IF fault
          THEN /\ ret' = Err("Delete", arg, "Write")
               /\ UNCHANGED <<store, history, putOnly, panicked>>
          ELSE /\ store' = DeleteBatch(store, contract, topic, messageId)
               /\ IF store' # store
                  THEN history' = <<>> /\ putOnly' = FALSE
                  ELSE UNCHANGED <<history, putOnly>>
               /\ ret' = Ok("Delete", arg)
               /\ UNCHANGED panicked
       /\ UNCHANGED <<db, version, live, nOpens, clock, pc, held>>

\* Get building the query without its Contract field
QueryNoContract(contract, topic, limit) ==
    [Topic |-> topic, Contract |-> 0, Limit |-> Uint32(limit)]

\* the query adapter.Get builds
Query(contract, topic, limit) ==
    [Topic |-> topic, Contract |-> contract, Limit |-> Uint32(limit)]

\* the loop of adapter.Get over the iterator: position errAt holds an item
\* whose Error() is non-nil (0: no position does)
RECURSIVE Scan(_, _, _, _)
Scan(items, i, errAt, matches) ==
    IF i > Len(items) THEN [matches |-> matches, err |-> "nil"]
    ELSE IF i = errAt THEN [matches |-> <<>>, err |-> "Iter"]
    ELSE Scan(items, i + 1, errAt, Append(matches, items[i].payload))

\* the loop returning what it collected together with the error
RECURSIVE ScanPartial(_, _, _, _)
ScanPartial(items, i, errAt, matches) ==
    IF i > Len(items) THEN [matches |-> matches, err |-> "nil"]
    ELSE IF i = errAt THEN [matches |-> matches, err |-> "Iter"]
    ELSE ScanPartial(items, i + 1, errAt, Append(matches, items[i].payload))

GetReturnPartial(items, errAt) == ScanPartial(items, 1, errAt, <<>>)

GetReturn(items, errAt) == Scan(items, 1, errAt, <<>>)

\* adapter.Get.  itemsErr: DB.Items returns an error; itNil: the iterator it
\* returns with the error is nil (otherwise an iterator that is not Valid)
GetResult(dbv, s, contract, topic, limit, itemsErr, itNil, errAt) ==
    IF dbv = Nil THEN [outcome |-> "panic", matches |-> <<>>, err |-> "nil"]
    ELSE IF itemsErr
    THEN IF itNil THEN [outcome |-> "panic", matches |-> <<>>, err |-> "nil"]
         ELSE [outcome |-> "ok", matches |-> <<>>, err |-> "nil"]
    ELSE LET r == GetReturn(Items(s, Query(contract, topic, limit)), errAt)
         IN [outcome |-> IF r.err = "nil" THEN "ok" ELSE "err",
             matches |-> r.matches, err |-> r.err]

Get(contract, topic, limit, itemsErr, itNil, errAt) ==
    LET arg == [itemsErr |-> itemsErr, itNil |-> itNil, errAt |-> errAt]
        r == GetResult(db, store, contract, topic, limit, itemsErr, itNil, errAt)
    IN /\ ~panicked
       /\ ret = NoCall
       /\ itNil => itemsErr
       /\ (db = Nil \/ itemsErr) => errAt = 0
       /\ (db # Nil /\ ~itemsErr)
              => errAt <= Len(Items(store, Query(contract, topic, limit)))
       /\ db = Nil => ~itemsErr
       /\ ret' = [op |-> "Get", outcome |-> r.outcome, err |-> r.err,
                  matches |-> r.matches, arg |-> arg]
       /\ panicked' = (r.outcome = "panic")
       /\ UNCHANGED <<db, version, live, nOpens, store, clock, history, putOnly,
                      pc, held>>

\* adapter.GenID; idNil: m.GenID returns nil
GenID(idNil) ==
    LET arg == [idNil |-> idNil]
    IN /\ ~panicked
       /\ ret = NoCall
       /\ ret' = IF idNil THEN Err("GenID", arg, "KeyEmpty") ELSE Ok("GenID", arg)
       /\ UNCHANGED <<db, version, live, nOpens, store, clock, history, putOnly,
                      panicked, pc, held>>

\* the caller takes the result of the call; its next call can start
Return ==
    /\ ~panicked
    /\ ret # NoCall
    /\ ret' = NoCall
    /\ UNCHANGED <<db, version, live, nOpens, store, clock, history, putOnly,
                   panicked, pc, held>>

Next ==
    \/ \E parseOk, mkdirOk, dbOpenOk \in BOOLEAN : Open(parseOk, mkdirOk, dbOpenOk)
    \/ \E closeErr \in BOOLEAN : Close(closeErr)
    \/ \E ct \in Pairs, p \in Payloads, fault \in BOOLEAN :
           Put(ct[1], ct[2], p, fault)
    \/ \E ct \in Pairs, id \in Ids, p \in Payloads, fault \in BOOLEAN :
           PutWithID(ct[1], ct[2], id, p, fault)
    \/ \E ct \in Pairs, id \in Ids, fault \in BOOLEAN :
           Delete(ct[1], ct[2], id, fault)
    \/ \E ct \in Pairs, limit \in Limits, itemsErr, itNil \in BOOLEAN,
           errAt \in 0..MaxEntries :
           Get(ct[1], ct[2], limit, itemsErr, itNil, errAt)
    \/ \E idNil \in BOOLEAN : GenID(idNil)
    \/ Return

Spec == Init /\ [][Next]_vars

\* ------------------------------------------------- concurrent callers
\* Put, PutWithID, Delete and Close take no lock (adapter.go:69-77, 91-102):
\* each is a read of a.db followed by calls on the value read.  DB.Close is
\* taken to wait for the batches already running inside the database.
Callers == {"c1", "c2"}

\* Put/PutWithID/Delete: evaluate a.db for the call a.db.Batch(...)
BatchLoad(c) ==
    /\ ~panicked
    /\ pc[c] = "idle"
    /\ held' = [held EXCEPT ![c] = db]
    /\ pc' = [pc EXCEPT ![c] = "call"]
    /\ UNCHANGED <<db, version, live, nOpens, store, clock, history, putOnly,
                   panicked, ret>>

\* DB.Batch is entered with the value read: a nil receiver panics
BatchBegin(c) ==
    /\ ~panicked
    /\ pc[c] = "call"
    /\ IF held[c] = Nil
       THEN /\ panicked' = TRUE
            /\ pc' = [pc EXCEPT ![c] = "idle"]
       ELSE /\ pc' = [pc EXCEPT ![c] = "batch"]
            /\ UNCHANGED panicked
    /\ UNCHANGED <<db, version, live, nOpens, store, clock, history, putOnly,
                   ret, held>>

\* the batch function runs b.PutEntry or b.DeleteEntry and b.Write; on a
\* closed database the write fails
BatchWrite(c, isPut, contract, topic, id, payload) ==
    /\ ~panicked
    /\ pc[c] = "batch"
    /\ IF held[c] \notin live
       THEN UNCHANGED store
       ELSE IF isPut
       THEN /\ Cardinality(BatchPut(store, PutEntry(contract, topic, id, payload)))
                   <= MaxEntries
            /\ store' = BatchPut(store, PutEntry(contract, topic, id, payload))
       ELSE store' = DeleteBatch(store, contract, topic, id)
    /\ history' = <<>>
    /\ putOnly' = FALSE
    /\ pc' = [pc EXCEPT ![c] = "idle"]
    /\ held' = [held EXCEPT ![c] = Nil]
    /\ UNCHANGED <<db, version, live, nOpens, clock, panicked, ret>>

\* Close: the test a.db != nil
CloseCheck(c) ==
    /\ ~panicked
    /\ pc[c] = "idle"
    /\ db # Nil
    /\ pc' = [pc EXCEPT ![c] = "closing"]
    /\ UNCHANGED <<db, version, live, nOpens, store, clock, history, putOnly,
                   panicked, ret, held>>

\* Close: a.db.Close() on a.db as it is now (a nil receiver panics); the
\* call returns once no batch runs inside the database
CloseDb(c) ==
    /\ ~panicked
    /\ pc[c] = "closing"
    /\ IF db = Nil
       THEN /\ panicked' = TRUE
            /\ pc' = [pc EXCEPT ![c] = "idle"]
            /\ UNCHANGED live
       ELSE /\ \A o \in Callers : pc[o] = "batch" => held[o] # db
            /\ live' = live \ {db}
            /\ pc' = [pc EXCEPT ![c] = "closed"]
            /\ UNCHANGED panicked
    /\ UNCHANGED <<db, version, nOpens, store, clock, history, putOnly,
                   ret, held>>

\* Close: a.db = nil; a.version = -1
CloseClear(c) ==
    /\ ~panicked
    /\ pc[c] = "closed"
    /\ db' = Nil
    /\ version' = -1
    /\ pc' = [pc EXCEPT ![c] = "idle"]
    /\ UNCHANGED <<live, nOpens, store, clock, history, putOnly, panicked, ret,
                   held>>

NextConc ==
    \/ \E parseOk, mkdirOk, dbOpenOk \in BOOLEAN : Open(parseOk, mkdirOk, dbOpenOk)
    \/ \E c \in Callers : BatchLoad(c)
    \/ \E c \in Callers : BatchBegin(c)
    \/ \E c \in Callers, isPut \in BOOLEAN, ct \in Pairs, id \in Ids, p \in Payloads :
           BatchWrite(c, isPut, ct[1], ct[2], id, p)
    \/ \E c \in Callers : CloseCheck(c)
    \/ \E c \in Callers : CloseDb(c)
    \/ \E c \in Callers : CloseClear(c)
    \/ Return

SpecConc == Init /\ [][NextConc]_vars

\* ---------------------------------------------------------- properties
NoFault(ct, limit) == Get(ct[1], ct[2], limit, FALSE, FALSE, 0)

Payloads_(items) == [i \in 1..Len(items) |-> items[i].payload]

\* C1: Open on an adapter that is open fails with the already-open error and
\* leaves a.db, a.version, the live handles and the store as they were
C1_OpenWhileOpenRejected ==
    [][\A parseOk, mkdirOk, dbOpenOk \in BOOLEAN :
          (db # Nil /\ Open(parseOk, mkdirOk, dbOpenOk))
              => /\ ret'.outcome = "err"
                 /\ ret'.err = "AlreadyOpen"
                 /\ db' = db
                 /\ version' = version
                 /\ live' = live
                 /\ store' = store]_vars

C1_Witness ==
    /\ ret.op = "Open"
    /\ ret.err = "AlreadyOpen"
    /\ db # Nil
    /\ store # {}

\* C2: Get with a limit above maxResults returns at most maxResults payloads
\* and the same sequence as Get with limit = maxResults
C2_LimitAboveMaxAsMax ==
    [][\A ct \in Pairs, limit \in Limits :
          (/\ ret'.op = "Get"
           /\ db # Nil
           /\ LimitGreater(limit, maxResults)
           /\ NoFault(ct, limit))
              => /\ Len(ret'.matches) <= maxResults
                 /\ ret'.matches =
                        GetResult(db, store, ct[1], ct[2],
                                  [hi |-> 0, lo |-> maxResults],
                                  FALSE, FALSE, 0).matches]_vars

\* C3 as stated: on an iterator error at position errAt, Get returns the
\* error together with the payloads collected before that position
C3_PartialResultsKept ==
    [][\A ct \in Pairs, limit \in Limits, errAt \in 1..MaxEntries :
          (/\ ret'.op = "Get"
           /\ ret'.arg.errAt = errAt
           /\ db # Nil
           /\ Get(ct[1], ct[2], limit, FALSE, FALSE, errAt))
              => /\ ret'.err = "Iter"
                 /\ ret'.matches =
                        Payloads_(Take(Items(store, [Topic |-> ct[2],
                                                     Contract |-> ct[1],
                                                     Limit |-> limit.lo]),
                                       errAt - 1))]_vars

\* C3 amended: on an iterator error part-way through the scan, Get returns
\* the error and no payloads; what was collected before is dropped
C3_PartialResultsDropped ==
    [][\A ct \in Pairs, limit \in Limits, errAt \in 1..MaxEntries :
          (/\ ret'.op = "Get"
           /\ ret'.arg.errAt = errAt
           /\ db # Nil
           /\ Get(ct[1], ct[2], limit, FALSE, FALSE, errAt))
              => /\ ret'.outcome = "err"
                 /\ ret'.err = "Iter"
                 /\ ret'.matches = <<>>]_vars

C3_Witness ==
    /\ ret.op = "Get"
    /\ ret.outcome = "err"
    /\ ret.arg.errAt >= 2
    /\ ret.matches = <<>>

\* C4: a call for which the database reports an error (the batch write of
\* Put, PutWithID or Delete, the creation of the iterator in Get, or an item
\* of the scan) returns a non-nil error
C4_StorageFailureSurfaced ==
    /\ ret.op \in {"Put", "PutWithID", "Delete"} /\ ret.arg.fault
           => ret.outcome = "err"
    /\ ret.op = "Get" /\ (ret.arg.itemsErr \/ ret.arg.errAt > 0)
           => ret.outcome = "err"

\* the payloads Put wrote to (contract, topic), newest first
RECURSIVE Written(_, _, _)
Written(h, contract, topic) ==
    IF h = <<>> THEN <<>>
    ELSE LET e == h[Len(h)]
             rest == Written(SubSeq(h, 1, Len(h) - 1), contract, topic)
         IN IF e.contract = contract /\ e.topic = topic
            THEN <<e.payload>> \o rest
            ELSE rest

\* C5: after N Put calls spread over the (contract, topic) pairs, Get with
\* limit = N returns exactly the payloads put to the pair asked for, the
\* most recent first, and nothing put to another pair
C5_GetReturnsPairNewestFirst ==
    [][\A ct \in Pairs, limit \in Limits :
          (/\ ret'.op = "Get"
           /\ db # Nil
           /\ putOnly
           /\ limit = [hi |-> 0, lo |-> Len(history)]
           /\ NoFault(ct, limit))
              => /\ ret'.outcome = "ok"
                 /\ ret'.matches = Written(history, ct[1], ct[2])]_vars

C5_Witness ==
    /\ ret.op = "Get"
    /\ ret.outcome = "ok"
    /\ putOnly
    /\ Len(history) = 2
    /\ Len(ret.matches) = 2
    /\ ret.matches[1] # ret.matches[2]
    /\ ret.matches = <<history[2].payload, history[1].payload>>

\* C6: Delete of a key the store does not hold returns success and leaves
\* the store, and with it the result of every Get, as it was
C6_DeleteAbsentIsNoOp ==
    [][\A ct \in Pairs, id \in Ids :
          (/\ ret'.op = "Delete"
           /\ db # Nil
           /\ ~Present(store, ct[1], ct[2], id)
           /\ Delete(ct[1], ct[2], id, FALSE))
              => /\ ret'.outcome = "ok"
                 /\ store' = store
                 /\ \A qt \in Pairs, limit \in Limits :
                        GetResult(db', store', qt[1], qt[2], limit, FALSE, FALSE, 0)
                            = GetResult(db, store, qt[1], qt[2], limit,
                                        FALSE, FALSE, 0)]_vars

C6_Witness ==
    /\ ret.op = "Delete"
    /\ ret.outcome = "ok"
    /\ ret.arg.absent
    /\ store # {}

\* C7: Close on a closed adapter returns success and changes nothing: the
\* adapter stays closed and a.version, the handles and the store are kept
C7_CloseWhileClosedIsNoOp ==
    [][\A closeErr \in BOOLEAN :
          (db = Nil /\ Close(closeErr))
              => /\ ret'.outcome = "ok"
                 /\ ~IsOpen'
                 /\ version' = version
                 /\ live' = live
                 /\ store' = store]_vars

C7_Witness ==
    /\ ret.op = "Close"
    /\ ret.outcome = "ok"
    /\ ~IsOpen
    /\ version = 0

\* C8: with a configuration that parses, Open on a closed adapter succeeds
\* and leaves the adapter open exactly when the database open succeeds,
\* whatever the directory creation did; when the database open fails, Open
\* returns that error and the adapter stays closed
C8_OpenDecidedByDbOpen ==
    [][\A mkdirOk, dbOpenOk \in BOOLEAN :
          (db = Nil /\ Open(TRUE, mkdirOk, dbOpenOk))
              => IF dbOpenOk
                 THEN ret'.outcome = "ok" /\ IsOpen'
                 ELSE ret'.outcome = "err" /\ ret'.err = "DbOpen" /\ ~IsOpen']_vars

C8_Witness ==
    /\ ret.op = "Open"
    /\ ret.outcome = "ok"
    /\ ~ret.arg.mkdirOk
    /\ IsOpen

\* C9: no batch of Put, PutWithID or Delete runs against a handle that Close
\* has released: a running batch holds the handle a.db names, and that
\* handle is still open
C9_NoBatchOnReleasedHandle ==
    \A c \in Callers :
        pc[c] = "batch" => held[c] \in live

\* C10: every call returns a result or an error; none panics
C10_NoPanic == ~panicked /\ ret.outcome \in {"ok", "err"}
====
